---- MODULE Spec2Model ----
(***************************************************************************)
(* Contoso Customer Service MCP server (src/mcp/mcp_server.py).            *)
(*                                                                         *)
(* The five tool handlers run against a SQLite store.  A handler is cut    *)
(* into steps at its database statements: everything a handler does        *)
(* between two statements touches only its own locals, so it is folded     *)
(* into the step of the statement that follows or precedes it.  Every      *)
(* statement may raise (sqlite3.OperationalError: locked database, missing *)
(* table, I/O error); the handlers catch nothing, so the exception leaves  *)
(* the handler at that statement.                                          *)
(*                                                                         *)
(* Amounts are integers (the REAL columns' rounding is not modelled).      *)
(* A timestamp is the sequence of digits strftime prints, compared as      *)
(* SQLite compares TEXT: lexicographically.                                *)
(***************************************************************************)
EXTENDS Integers, Sequences, FiniteSets, TLC

\* ------------------------------------------------------------ bounds
\* Rows the SupportTickets table may hold before no further ticket is created.
MaxTickets == 3
\* The wall clock's last second.
MaxTime == 10

\* ------------------------------------------------------------ values
\* SQL NULL / Python None in a text column or an Optional[str] field.
NULL == "NULL"
\* None in an integer column (subscription_id) or an id not yet assigned.
NoId == 0
\* NULL / None in a timestamp column (closed_at).
NoTime == <<>>

Procs == {1, 2}
DBs == {1, 2}

AllowedPriorities == {"low", "medium", "high"}

\* The ids tool calls are made with: 1 and 2 are seeded customers, 3 is nobody.
CustomerIds == {1, 2, 3}
Priorities == {"high", "urgent", "HIGH"}
Subjects == {"Wifi down", "x"}

Max2(a, b) == IF a >= b THEN a ELSE b

\* datetime.now().strftime("%Y-%m-%d %H:%M:%S"): fixed-width, zero-padded digits.
strftime(t) == <<t \div 10, t % 10>>

\* SQLite's comparison of two TEXT values (memcmp, then length).
RECURSIVE TextLess(_, _)
TextLess(a, b) ==
    IF b = <<>> THEN FALSE
    ELSE IF a = <<>> THEN TRUE
    ELSE IF Head(a) # Head(b) THEN Head(a) < Head(b)
    ELSE TextLess(Tail(a), Tail(b))

\* ------------------------------------------------------------ seed data
SeedCustomers ==
    << [customer_id |-> 1, first_name |-> "Ada", last_name |-> "Berg",
        email |-> "ada@contoso.com", phone |-> NULL, loyalty_level |-> "Gold"],
       [customer_id |-> 2, first_name |-> "Bo", last_name |-> "Chen",
        email |-> "bo@contoso.com", phone |-> "555-0100", loyalty_level |-> "Bronze"] >>

SeedSubscriptions ==
    << [subscription_id |-> 11, customer_id |-> 1],
       [subscription_id |-> 12, customer_id |-> 1] >>

SeedInvoices ==
    { [invoice_id |-> 1, subscription_id |-> 11, amount |-> 100, due_date |-> <<0, 1>>],
      [invoice_id |-> 2, subscription_id |-> 12, amount |-> 50, due_date |-> <<0, 2>>] }

SeedPayments ==
    { [payment_id |-> 1, invoice_id |-> 1, amount |-> 40, status |-> "successful"] }

SeedTicket(id, cust, sub, at, closed, st) ==
    [ticket_id |-> id, customer_id |-> cust, subscription_id |-> sub,
     category |-> "billing", opened_at |-> at, closed_at |-> closed, status |-> st,
     priority |-> "low", subject |-> "Invoice", description |-> "Charged twice",
     cs_agent |-> "agent_7"]

SeedTickets == << SeedTicket(1, 1, 11, <<0, 5>>, <<0, 6>>, "closed") >>

VARIABLES
    Customers,       \* [DBs -> sequence of rows], in rowid order
    Subscriptions,   \* [DBs -> sequence of rows], in rowid order
    Invoices,        \* [DBs -> set of rows]
    Payments,        \* [DBs -> set of rows]
    SupportTickets,  \* [DBs -> sequence of committed rows], in rowid order
    writer,          \* [DBs -> the process holding the write lock, or NoId]
    txn,             \* [Procs -> the rows a connection inserted and has not committed]
    clock,           \* the wall clock, in seconds
    dbOf,            \* [Procs -> the database file DB_PATH names for it]
    pc,              \* [Procs -> where the process is in its call]
    op,              \* [Procs -> the tool called]
    args,            \* [Procs -> the call's arguments]
    conn,            \* [Procs -> "none", "open" or "closed": the call's db handle]
    local,           \* [Procs -> opened_at, subscription_id, ticket_id of the call]
    stmts,           \* [Procs -> statements the call has sent to the store]
    pre,             \* [Procs -> SupportTickets as the call found it]
    result           \* [Procs -> what the caller sees]

vars == <<Customers, Subscriptions, Invoices, Payments, SupportTickets, writer, txn,
          clock, dbOf, pc, op, args, conn, local, stmts, pre, result>>

tables == <<Customers, Subscriptions, Invoices, Payments>>

\* ------------------------------------------------------------ records
NoArgs == [customer_id |-> NoId, open_only |-> FALSE, subject |-> NULL,
           description |-> NULL, priority |-> NULL]
NoLocal == [opened_at |-> NoTime, subscription_id |-> NoId, ticket_id |-> NoId]
NoResult == [kind |-> "none", value |-> NULL]

Ok(v) == [kind |-> "ok", value |-> v]
NotFound(id) == [kind |-> "NotFound", value |-> id]
ValidationError == [kind |-> "ValidationError", value |-> NULL]
StoreError == [kind |-> "StoreError", value |-> NULL]
ModelError == [kind |-> "ModelError", value |-> NULL]
TypeError == [kind |-> "TypeError", value |-> NULL]

\* ------------------------------------------------------------ sequences
Range(s) == {s[i] : i \in 1..Len(s)}

RECURSIVE SumSeq(_)
SumSeq(s) == IF s = <<>> THEN 0 ELSE Head(s) + SumSeq(Tail(s))

\* ------------------------------------------------------------ record models
\* Customer(**dict(r)): every field but phone is required.
Customer(r) ==
    IF \E f \in {"first_name", "last_name", "email", "loyalty_level"} : r[f] = NULL
    THEN ModelError
    ELSE Ok(r)

\* SupportTicket(**dict(r)): every field but closed_at is required.
SupportTicket(r) ==
    IF \E f \in {"subject", "description", "status", "priority"} : r[f] = NULL
    THEN ModelError
    ELSE IF r.opened_at = NoTime THEN ModelError
    ELSE Ok(r)

\* [Customer(**dict(r)) for r in rows]: a row that does not validate raises.
CustomerList(rows) ==
    IF \E i \in 1..Len(rows) : Customer(rows[i]).kind # "ok"
    THEN ModelError
    ELSE Ok([i \in 1..Len(rows) |-> Customer(rows[i]).value])

\* [SupportTicket(**dict(r)) for r in rows]
SupportTicketList(rows) ==
    IF \E i \in 1..Len(rows) : SupportTicket(rows[i]).kind # "ok"
    THEN ModelError
    ELSE Ok([i \in 1..Len(rows) |-> SupportTicket(rows[i]).value])

\* ------------------------------------------------------------ queries
\* SELECT customer_id, first_name, last_name, email, phone, loyalty_level FROM Customers
SelectCustomers(d) == Customers[d]

\* The lookup without its WHERE clause.
SelectCustomerAny(d, id) == Customers[d]

\* ... FROM Customers WHERE customer_id = ?
SelectCustomer(d, id) == SelectSeq(Customers[d], LAMBDA r : r.customer_id = id)

\* SELECT subscription_id FROM Subscriptions WHERE customer_id = ? LIMIT 1
SelectSubscription(d, id) ==
    LET owned == SelectSeq(Subscriptions[d], LAMBDA r : r.customer_id = id)
    IN  IF owned = <<>> THEN <<>> ELSE <<Head(owned)>>

\* Invoices inv LEFT JOIN Payments pay ON pay.invoice_id = inv.invoice_id
\*                                     AND pay.status = 'successful'
\* A row of the join is an invoice with one matching payment, or with none (NULLs).
JoinOn(inv, pay) == pay.invoice_id = inv.invoice_id /\ pay.status = "successful"

LeftJoin(d) ==
    UNION { IF \E pay \in Payments[d] : JoinOn(inv, pay)
            THEN {[inv |-> inv, pay |-> <<pay>>] : pay \in {q \in Payments[d] : JoinOn(inv, q)}}
            ELSE {[inv |-> inv, pay |-> <<>>]}
          : inv \in Invoices[d] }

\* WHERE inv.subscription_id IN (SELECT subscription_id FROM Subscriptions WHERE customer_id = ?)
InvoiceRowsOf(d, id) ==
    LET owned == {s.subscription_id : s \in {x \in Range(Subscriptions[d]) : x.customer_id = id}}
    IN  {j \in LeftJoin(d) : j.inv.subscription_id \in owned}

\* SUM(pay.amount) over a group: NULL (here <<>>) when no row has a payment.
RECURSIVE SumAmounts(_)
SumAmounts(js) ==
    IF js = {} THEN <<>>
    ELSE LET j == CHOOSE x \in js : TRUE
             rest == SumAmounts(js \ {j})
         IN  IF j.pay = <<>> THEN rest
             ELSE IF rest = <<>> THEN <<j.pay[1].amount>>
             ELSE <<j.pay[1].amount + rest[1]>>

IfNull(v, dflt) == IF v = <<>> THEN dflt ELSE v[1]

\* GROUP BY inv.invoice_id, one output row per group, in invoice_id order.
RECURSIVE GroupByInvoice(_)
GroupByInvoice(js) ==
    IF js = {} THEN <<>>
    ELSE LET g == CHOOSE x \in {j.inv.invoice_id : j \in js} :
                      \A y \in {j.inv.invoice_id : j \in js} : x <= y
             group == {j \in js : j.inv.invoice_id = g}
             any == CHOOSE j \in group : TRUE
         IN  << [invoice_id |-> g, amount |-> any.inv.amount,
                 due_date |-> any.inv.due_date,
                 paid |-> IfNull(SumAmounts(group), 0)] >>
             \o GroupByInvoice(js \ group)

SelectInvoices(d, id) == GroupByInvoice(InvoiceRowsOf(d, id))

\* The outstanding amount without its floor at zero.
OutstandingUnclamped(r) == r.amount - r.paid

\* max(r["amount"] - r["paid"], 0.0)
Outstanding(r) == Max2(r.amount - r.paid, 0)

InvoiceEntry(r) ==
    [invoice_id |-> r.invoice_id, amount |-> r.amount, paid |-> r.paid,
     outstanding |-> Outstanding(r), due_date |-> r.due_date]

BillingSummary(id, rows) ==
    LET invoices == [i \in 1..Len(rows) |-> InvoiceEntry(rows[i])]
    IN  [customer_id |-> id,
         total_due |-> SumSeq([i \in 1..Len(invoices) |-> invoices[i].outstanding]),
         invoices |-> invoices]

\* The eight columns the ticket queries select.
TicketColumns(r) ==
    [ticket_id |-> r.ticket_id, customer_id |-> r.customer_id, subject |-> r.subject,
     description |-> r.description, status |-> r.status, priority |-> r.priority,
     opened_at |-> r.opened_at, closed_at |-> r.closed_at]

\* ORDER BY opened_at DESC: rows with equal keys stay in scan order.
RECURSIVE InsertDesc(_, _)
InsertDesc(s, r) ==
    IF s = <<>> THEN <<r>>
    ELSE IF TextLess(Head(s).opened_at, r.opened_at) THEN <<r>> \o s
    ELSE <<Head(s)>> \o InsertDesc(Tail(s), r)

RECURSIVE OrderByOpenedAtDesc(_)
OrderByOpenedAtDesc(s) ==
    IF s = <<>> THEN <<>>
    ELSE InsertDesc(OrderByOpenedAtDesc(SubSeq(s, 1, Len(s) - 1)), s[Len(s)])

\* The filter keeping only the tickets whose status is 'open'.
TicketWhereOpen(r, id, open_only) ==
    r.customer_id = id /\ (open_only => r.status = "open")

\* WHERE customer_id = ? [AND status != 'closed']
TicketWhere(r, id, open_only) ==
    r.customer_id = id /\ (open_only => r.status # "closed")

SelectTickets(d, id, open_only) ==
    LET hits == SelectSeq(SupportTickets[d], LAMBDA r : TicketWhere(r, id, open_only))
        sorted == OrderByOpenedAtDesc(hits)
    IN  [i \in 1..Len(sorted) |-> TicketColumns(sorted[i])]

\* The re-read taking the table's newest row, whatever its id.
SelectNewestTicket(d, id) ==
    IF SupportTickets[d] = <<>> THEN <<>>
    ELSE <<TicketColumns(SupportTickets[d][Len(SupportTickets[d])])>>

\* ... FROM SupportTickets WHERE ticket_id = ?
SelectTicket(d, id) ==
    LET hits == SelectSeq(SupportTickets[d], LAMBDA r : r.ticket_id = id)
    IN  [i \in 1..Len(hits) |-> TicketColumns(hits[i])]

\* The rowid SQLite gives the next row of an INTEGER PRIMARY KEY table.
RECURSIVE MaxId(_)
MaxId(s) == IF s = <<>> THEN 0 ELSE Max2(Head(s).ticket_id, MaxId(Tail(s)))

NextRowid(d) == MaxId(SupportTickets[d]) + 1

\* The row with subject and description in each other's column.
NewTicketSwapped(id, a, l) ==
    [ticket_id |-> id, customer_id |-> a.customer_id,
     subscription_id |-> l.subscription_id, category |-> "general",
     opened_at |-> l.opened_at, closed_at |-> NoTime, status |-> "open",
     priority |-> a.priority, subject |-> a.description, description |-> a.subject,
     cs_agent |-> "AI_Agent"]

\* The row stamped with the time of the INSERT, not the time the call read.
NewTicketStamped(id, a, l) ==
    [ticket_id |-> id, customer_id |-> a.customer_id,
     subscription_id |-> l.subscription_id, category |-> "general",
     opened_at |-> strftime(clock), closed_at |-> NoTime, status |-> "open",
     priority |-> a.priority, subject |-> a.subject, description |-> a.description,
     cs_agent |-> "AI_Agent"]

\* The row create_support_ticket inserts.
NewTicket(id, a, l) ==
    [ticket_id |-> id, customer_id |-> a.customer_id,
     subscription_id |-> l.subscription_id, category |-> "general",
     opened_at |-> l.opened_at, closed_at |-> NoTime, status |-> "open",
     priority |-> a.priority, subject |-> a.subject, description |-> a.description,
     cs_agent |-> "AI_Agent"]

\* ------------------------------------------------------------ the calls
Tools == {"list_customers", "get_customer", "get_billing_summary",
          "get_support_tickets", "create_support_ticket"}

\* The arguments a tool is called with: customer ids among `ids`, subjects among
\* `subjects`.
ArgsOf(tool, ids, subjects) ==
    CASE tool = "list_customers" -> {NoArgs}
      [] tool \in {"get_customer", "get_billing_summary"} ->
            {[NoArgs EXCEPT !.customer_id = c] : c \in ids}
      [] tool = "get_support_tickets" ->
            {[NoArgs EXCEPT !.customer_id = c, !.open_only = b] :
                c \in ids, b \in BOOLEAN}
      [] tool = "create_support_ticket" ->
            {[NoArgs EXCEPT !.customer_id = c, !.subject = s,
                            !.description = "Router offline", !.priority = q] :
                c \in ids, s \in subjects, q \in Priorities}

\* Creations under way on database d.
Creating(d) ==
    {q \in Procs : dbOf[q] = d /\ op[q] = "create_support_ticket"
                   /\ pc[q] \notin {"idle", "done"}}

\* The frontend dispatches a tool call, with arguments among A, to its handler.
Invoke(p, tool, A) ==
    /\ pc[p] = "idle"
    /\ tool = "create_support_ticket" =>
          Len(SupportTickets[dbOf[p]]) + Cardinality(Creating(dbOf[p])) < MaxTickets
    /\ \E a \in A : args' = [args EXCEPT ![p] = a]
    /\ op' = [op EXCEPT ![p] = tool]
    /\ pc' = [pc EXCEPT ![p] = "start"]
    /\ pre' = [pre EXCEPT ![p] = SupportTickets[dbOf[p]]]
    /\ UNCHANGED <<tables, SupportTickets, writer, txn, clock, dbOf, conn, local,
                   stmts, result>>

\* The handler returns r, or raises it, with its connection in state c.
Finish(p, r, c) ==
    /\ pc' = [pc EXCEPT ![p] = "done"]
    /\ result' = [result EXCEPT ![p] = r]
    /\ conn' = [conn EXCEPT ![p] = c]

\* A statement raised: nothing after it runs, db.close() included.
Raise(p) == Finish(p, StoreError, "open")

Sent(p) == stmts' = [stmts EXCEPT ![p] = @ + 1]

ListCustomers(p) ==
    /\ pc[p] = "start" /\ op[p] = "list_customers"
    /\ Sent(p)
    /\ \E raised \in BOOLEAN :
          IF raised THEN Raise(p)
          ELSE Finish(p, CustomerList(SelectCustomers(dbOf[p])), "closed")
    /\ UNCHANGED <<tables, SupportTickets, writer, txn, clock, dbOf, op, args, local, pre>>

GetCustomer(p) ==
    /\ pc[p] = "start" /\ op[p] = "get_customer"
    /\ Sent(p)
    /\ \E raised \in BOOLEAN :
          IF raised THEN Raise(p)
          ELSE LET row == SelectCustomer(dbOf[p], args[p].customer_id)
               IN  IF row = <<>>
                   THEN Finish(p, NotFound(args[p].customer_id), "closed")
                   ELSE Finish(p, Customer(row[1]), "closed")
    /\ UNCHANGED <<tables, SupportTickets, writer, txn, clock, dbOf, op, args, local, pre>>

\* get_billing_summary, to its existence check.
BillingCheck(p) ==
    /\ pc[p] = "start" /\ op[p] = "get_billing_summary"
    /\ Sent(p)
    /\ \E raised \in BOOLEAN :
          IF raised THEN Raise(p)
          ELSE IF SelectCustomer(dbOf[p], args[p].customer_id) = <<>>
          THEN Finish(p, NotFound(args[p].customer_id), "closed")
          ELSE /\ pc' = [pc EXCEPT ![p] = "invoices"]
               /\ conn' = [conn EXCEPT ![p] = "open"]
               /\ UNCHANGED result
    /\ UNCHANGED <<tables, SupportTickets, writer, txn, clock, dbOf, op, args, local, pre>>

\* get_billing_summary, from the invoice query on.
BillingInvoices(p) ==
    /\ pc[p] = "invoices"
    /\ Sent(p)
    /\ \E raised \in BOOLEAN :
          IF raised THEN Raise(p)
          ELSE Finish(p, Ok(BillingSummary(args[p].customer_id,
                                           SelectInvoices(dbOf[p], args[p].customer_id))),
                      "closed")
    /\ UNCHANGED <<tables, SupportTickets, writer, txn, clock, dbOf, op, args, local, pre>>

GetSupportTickets(p) ==
    /\ pc[p] = "start" /\ op[p] = "get_support_tickets"
    /\ Sent(p)
    /\ \E raised \in BOOLEAN :
          IF raised THEN Raise(p)
          ELSE Finish(p, SupportTicketList(SelectTickets(dbOf[p], args[p].customer_id,
                                                         args[p].open_only)),
                      "closed")
    /\ UNCHANGED <<tables, SupportTickets, writer, txn, clock, dbOf, op, args, local, pre>>

\* A check that lets every priority through.
AnyPriority(priority) == priority # NULL

\* priority in ["low", "medium", "high"]
ValidPriority(priority) == priority \in AllowedPriorities

\* create_support_ticket, to its existence check.
CreateCheck(p) ==
    /\ pc[p] = "start" /\ op[p] = "create_support_ticket"
    /\ IF ~ValidPriority(args[p].priority)
       THEN /\ Finish(p, ValidationError, "none")
            /\ UNCHANGED <<local, stmts>>
       ELSE /\ local' = [local EXCEPT ![p].opened_at = strftime(clock)]
            /\ Sent(p)
            /\ \E raised \in BOOLEAN :
                  IF raised THEN Raise(p)
                  ELSE IF SelectCustomer(dbOf[p], args[p].customer_id) = <<>>
                  THEN Finish(p, NotFound(args[p].customer_id), "closed")
                  ELSE /\ pc' = [pc EXCEPT ![p] = "subscription"]
                       /\ conn' = [conn EXCEPT ![p] = "open"]
                       /\ UNCHANGED result
    /\ UNCHANGED <<tables, SupportTickets, writer, txn, clock, dbOf, op, args, pre>>

\* create_support_ticket: the customer's first subscription, if any.
CreateSubscription(p) ==
    /\ pc[p] = "subscription"
    /\ Sent(p)
    /\ \E raised \in BOOLEAN :
          IF raised THEN Raise(p) /\ UNCHANGED local
          ELSE LET sub == SelectSubscription(dbOf[p], args[p].customer_id)
               IN  /\ local' = [local EXCEPT ![p].subscription_id =
                                   IF sub = <<>> THEN NoId ELSE sub[1].subscription_id]
                   /\ pc' = [pc EXCEPT ![p] = "insert"]
                   /\ UNCHANGED <<conn, result>>
    /\ UNCHANGED <<tables, SupportTickets, writer, txn, clock, dbOf, op, args, pre>>

\* create_support_ticket: the INSERT, which waits for the database's write lock
\* (and raises when the wait times out).
CreateInsert(p) ==
    /\ pc[p] = "insert"
    /\ Sent(p)
    /\ \E raised \in BOOLEAN :
          IF raised THEN Raise(p) /\ UNCHANGED <<local, writer, txn>>
          ELSE /\ writer[dbOf[p]] = NoId
               /\ writer' = [writer EXCEPT ![dbOf[p]] = p]
               /\ local' = [local EXCEPT ![p].ticket_id = NextRowid(dbOf[p])]
               /\ txn' = [txn EXCEPT ![p] =
                             <<NewTicket(NextRowid(dbOf[p]), args[p], local[p])>>]
               /\ pc' = [pc EXCEPT ![p] = "commit"]
               /\ UNCHANGED <<conn, result>>
    /\ UNCHANGED <<tables, SupportTickets, clock, dbOf, op, args, pre>>

\* A commit that writes the row over the table's last one.
CommittedOver(table, rows) ==
    IF table = <<>> THEN rows ELSE SubSeq(table, 1, Len(table) - 1) \o rows

\* The table with a connection's rows committed to it.
Committed(table, rows) == table \o rows

\* create_support_ticket: db.commit().
CreateCommit(p) ==
    /\ pc[p] = "commit"
    /\ Sent(p)
    /\ \E raised \in BOOLEAN :
          IF raised THEN Raise(p) /\ UNCHANGED <<SupportTickets, writer, txn>>
          ELSE /\ SupportTickets' = [SupportTickets EXCEPT ![dbOf[p]] =
                                        Committed(@, txn[p])]
               /\ writer' = [writer EXCEPT ![dbOf[p]] = NoId]
               /\ txn' = [txn EXCEPT ![p] = <<>>]
               /\ pc' = [pc EXCEPT ![p] = "reread"]
               /\ UNCHANGED <<conn, result>>
    /\ UNCHANGED <<tables, clock, dbOf, op, args, local, pre>>

\* create_support_ticket: the re-read of the new row, and the return.
CreateReread(p) ==
    /\ pc[p] = "reread"
    /\ Sent(p)
    /\ \E raised \in BOOLEAN :
          IF raised THEN Raise(p)
          ELSE LET row == SelectTicket(dbOf[p], local[p].ticket_id)
               IN  IF row = <<>> THEN Finish(p, TypeError, "closed")
                   ELSE Finish(p, SupportTicket(row[1]), "closed")
    /\ UNCHANGED <<tables, SupportTickets, writer, txn, clock, dbOf, op, args, local, pre>>

\* The caller has the result; the handler's frame goes.  A connection the handler
\* left open is finalised with it: sqlite rolls its transaction back and frees
\* its lock.
Return(p) ==
    /\ pc[p] = "done"
    /\ pc' = [pc EXCEPT ![p] = "idle"]
    /\ op' = [op EXCEPT ![p] = "none"]
    /\ args' = [args EXCEPT ![p] = NoArgs]
    /\ conn' = [conn EXCEPT ![p] = "none"]
    /\ local' = [local EXCEPT ![p] = NoLocal]
    /\ stmts' = [stmts EXCEPT ![p] = 0]
    /\ pre' = [pre EXCEPT ![p] = <<>>]
    /\ result' = [result EXCEPT ![p] = NoResult]
    /\ txn' = [txn EXCEPT ![p] = <<>>]
    /\ writer' = [writer EXCEPT ![dbOf[p]] = IF @ = p THEN NoId ELSE @]
    /\ UNCHANGED <<tables, SupportTickets, clock, dbOf>>

\* A second passes.
Tick ==
    /\ clock < MaxTime
    /\ clock' = clock + 1
    /\ UNCHANGED <<tables, SupportTickets, writer, txn, dbOf, pc, op, args, conn,
                   local, stmts, pre, result>>

\* ------------------------------------------------------------ specifications
InitCalls ==
    /\ pc = [p \in Procs |-> "idle"]
    /\ op = [p \in Procs |-> "none"]
    /\ args = [p \in Procs |-> NoArgs]
    /\ conn = [p \in Procs |-> "none"]
    /\ local = [p \in Procs |-> NoLocal]
    /\ stmts = [p \in Procs |-> 0]
    /\ pre = [p \in Procs |-> <<>>]
    /\ result = [p \in Procs |-> NoResult]
    /\ txn = [p \in Procs |-> <<>>]
    /\ writer = [d \in DBs |-> NoId]

InitStore(customers, subscriptions, invoices, payments, tickets) ==
    /\ Customers = [d \in DBs |-> customers]
    /\ Subscriptions = [d \in DBs |-> subscriptions]
    /\ Invoices = [d \in DBs |-> invoices]
    /\ Payments = [d \in DBs |-> payments]
    /\ SupportTickets = [d \in DBs |-> tickets]
    /\ clock = 9

\* The server on its seeded database, serving two callers at a time.
Init ==
    /\ InitCalls
    /\ InitStore(SeedCustomers, SeedSubscriptions, SeedInvoices, SeedPayments, SeedTickets)
    /\ dbOf = [p \in Procs |-> 1]

Next ==
    \/ \E p \in Procs : \E tool \in Tools : Invoke(p, tool, ArgsOf(tool, {1, 3}, {"Wifi down"}))
    \/ \E p \in Procs : ListCustomers(p)
    \/ \E p \in Procs : GetCustomer(p)
    \/ \E p \in Procs : BillingCheck(p)
    \/ \E p \in Procs : BillingInvoices(p)
    \/ \E p \in Procs : GetSupportTickets(p)
    \/ \E p \in Procs : CreateCheck(p)
    \/ \E p \in Procs : CreateSubscription(p)
    \/ \E p \in Procs : CreateInsert(p)
    \/ \E p \in Procs : CreateCommit(p)
    \/ \E p \in Procs : CreateReread(p)
    \/ \E p \in Procs : Return(p)
    \/ Tick

Spec == Init /\ [][Next]_vars

\* ------------------------------------------------------------ billing
\* One caller asking for billing summaries, over every store built from these rows.
BillingSubscriptions ==
    SeedSubscriptions \o << [subscription_id |-> 21, customer_id |-> 2] >>

BillingInvoices3 ==
    SeedInvoices \cup
    { [invoice_id |-> 3, subscription_id |-> 21, amount |-> 70, due_date |-> <<0, 3>>] }

BillingPayments ==
    SeedPayments \cup
    { [payment_id |-> 2, invoice_id |-> 1, amount |-> 70, status |-> "successful"],
      [payment_id |-> 3, invoice_id |-> 1, amount |-> 30, status |-> "failed"],
      [payment_id |-> 4, invoice_id |-> 2, amount |-> 60, status |-> "successful"],
      [payment_id |-> 5, invoice_id |-> 3, amount |-> 70, status |-> "pending"] }

InitBilling ==
    /\ InitCalls
    /\ \E invoices \in SUBSET BillingInvoices3 : \E payments \in SUBSET BillingPayments :
          InitStore(SeedCustomers, BillingSubscriptions, invoices, payments, SeedTickets)
    /\ dbOf = [p \in Procs |-> 1]

NextBilling ==
    \/ Invoke(1, "get_billing_summary", ArgsOf("get_billing_summary", CustomerIds, Subjects))
    \/ BillingCheck(1)
    \/ BillingInvoices(1)
    \/ Return(1)

SpecBilling == InitBilling /\ [][NextBilling]_vars

\* ------------------------------------------------------------ ticket listing
\* One caller listing tickets, over every table of at most MaxTickets of these rows.
TicketStatuses == {"open", "closed", "Closed", ""}
TicketTimes == {strftime(9), strftime(10)}

TicketTables ==
    UNION { [1..n -> {1, 2} \X TicketTimes \X TicketStatuses] : n \in 0..MaxTickets }

TicketTable(t) ==
    [i \in 1..Len(t) |-> SeedTicket(i, t[i][1], NoId, t[i][2], NoTime, t[i][3])]

InitTickets ==
    /\ InitCalls
    /\ \E t \in TicketTables :
          InitStore(SeedCustomers, SeedSubscriptions, SeedInvoices, SeedPayments,
                    TicketTable(t))
    /\ dbOf = [p \in Procs |-> 1]

NextTickets ==
    \/ Invoke(1, "get_support_tickets", ArgsOf("get_support_tickets", CustomerIds, Subjects))
    \/ GetSupportTickets(1)
    \/ Return(1)

SpecTickets == InitTickets /\ [][NextTickets]_vars

\* ------------------------------------------------------------ two deployments
\* Two servers, each on its own copy of the same database, each given the same
\* one call: what a call's outcome depends on shows in how the two can differ.
TwinTickets == {<<>>, SeedTickets}

InitTwin ==
    /\ InitCalls
    /\ \E tickets \in TwinTickets :
          InitStore(SeedCustomers, SeedSubscriptions, SeedInvoices, SeedPayments, tickets)
    /\ dbOf = [p \in Procs |-> p]

NextTwin ==
    \/ \E tool \in Tools : Invoke(1, tool, ArgsOf(tool, CustomerIds, Subjects))
    \/ Invoke(2, op[1], {args[1]}) /\ pc[1] # "idle"
    \/ \E p \in Procs : ListCustomers(p)
    \/ \E p \in Procs : GetCustomer(p)
    \/ \E p \in Procs : BillingCheck(p)
    \/ \E p \in Procs : BillingInvoices(p)
    \/ \E p \in Procs : GetSupportTickets(p)
    \/ \E p \in Procs : CreateCheck(p)
    \/ \E p \in Procs : CreateSubscription(p)
    \/ \E p \in Procs : CreateInsert(p)
    \/ \E p \in Procs : CreateCommit(p)
    \/ \E p \in Procs : CreateReread(p)
    \/ Tick

SpecTwin == InitTwin /\ [][NextTwin]_vars

\* ------------------------------------------------------------ properties
Done(p, tool) == pc[p] = "done" /\ op[p] = tool

\* The committed rows of p's database that carry the id p's INSERT was given.
RowsOf(p) ==
    {i \in 1..Len(SupportTickets[dbOf[p]]) :
        SupportTickets[dbOf[p]][i].ticket_id = local[p].ticket_id}

\* C1: no call ends, by return or by exception, with its connection still open.
C1_ConnectionReleased == \A p \in Procs : pc[p] = "done" => conn[p] # "open"

\* C2: a create_support_ticket call either returns the ticket, with exactly one new
\* row committed, or shows its caller an error and has left no row in SupportTickets.
C2_NoPartialSuccess ==
    \A p \in Procs : Done(p, "create_support_ticket") =>
        IF result[p].kind = "ok"
        THEN /\ Cardinality(RowsOf(p)) = 1
             /\ \A r \in Range(pre[p]) : r.ticket_id # local[p].ticket_id
        ELSE RowsOf(p) = {}

\* C3: create_support_ticket with a priority outside {"low","medium","high"} ends in
\* a validation error, whoever the customer, having opened no connection, sent no
\* statement and inserted no row.
C3_BadPriorityRejected ==
    \A p \in Procs :
        (op[p] = "create_support_ticket" /\ pc[p] # "start"
            /\ args[p].priority \notin {"low", "medium", "high"}) =>
        /\ pc[p] = "done"
        /\ result[p] = ValidationError
        /\ conn[p] = "none"
        /\ stmts[p] = 0
        /\ txn[p] = <<>> /\ local[p].ticket_id = NoId
        /\ \A r \in Range(SupportTickets[dbOf[p]]) : r.priority # args[p].priority

C3_Witness ==
    \E p \in Procs :
        /\ Done(p, "create_support_ticket")
        /\ args[p].priority = "urgent" /\ args[p].customer_id = 1
        /\ result[p] = ValidationError

\* A step that is p's commit appending p's row to SupportTickets of database d.
C4_OnlyInsert(p, d) ==
    /\ op[p] = "create_support_ticket" /\ pc[p] = "commit" /\ pc'[p] = "reread"
    /\ dbOf[p] = d
    /\ Len(SupportTickets'[d]) = Len(SupportTickets[d]) + 1
    /\ SubSeq(SupportTickets'[d], 1, Len(SupportTickets[d])) = SupportTickets[d]
    /\ SupportTickets'[d][Len(SupportTickets'[d])].ticket_id = local[p].ticket_id

\* A successful creation has exactly one row, which was not there before.
C4_OneRow ==
    \A p \in Procs :
        (Done(p, "create_support_ticket") /\ result[p].kind = "ok") =>
            /\ Cardinality(RowsOf(p)) = 1
            /\ \A r \in Range(pre[p]) : r.ticket_id # local[p].ticket_id

\* C4: the only change any step makes to the store is create_support_ticket's commit
\* appending its one row to SupportTickets: Customers, Subscriptions, Invoices,
\* Payments and the rows SupportTickets already holds never change, the lookups
\* change nothing, and a successful creation has added exactly one row.
C4_Frame ==
    /\ []C4_OneRow
    /\ [][ /\ UNCHANGED tables
           /\ \A d \in DBs :
                 \/ SupportTickets'[d] = SupportTickets[d]
                 \/ \E p \in Procs : C4_OnlyInsert(p, d) ]_vars

C4_Witness ==
    /\ Done(1, "create_support_ticket") /\ result[1].kind = "ok"
    /\ Done(2, "get_support_tickets") /\ result[2].kind = "ok"
    /\ Len(SupportTickets[1]) = Len(SeedTickets) + 1

CustomerExists(d, id) == \E r \in Range(Customers[d]) : r.customer_id = id

\* What an invoice's successful payments add up to.
RECURSIVE SumPayments(_)
SumPayments(ps) ==
    IF ps = {} THEN 0
    ELSE LET q == CHOOSE x \in ps : TRUE IN q.amount + SumPayments(ps \ {q})

PaidOn(d, inv) ==
    SumPayments({q \in Payments[d] :
                    q.invoice_id = inv.invoice_id /\ q.status = "successful"})

\* The sum over a set of invoices of max(amount - paid, 0).
RECURSIVE SumDue(_, _)
SumDue(d, invs) ==
    IF invs = {} THEN 0
    ELSE LET inv == CHOOSE x \in invs : TRUE
             due == inv.amount - PaidOn(d, inv)
         IN  (IF due > 0 THEN due ELSE 0) + SumDue(d, invs \ {inv})

InvoicesOf(d, id) ==
    {inv \in Invoices[d] :
        \E sub \in Range(Subscriptions[d]) :
            sub.customer_id = id /\ sub.subscription_id = inv.subscription_id}

\* C5: for an existing customer get_billing_summary succeeds (the store not failing)
\* and its total_due is the sum, over the invoices of the customer's subscriptions,
\* of max(amount - paid, 0), paid being the invoice's successful payments: 0 when
\* the customer has no invoices.
C5_TotalDue ==
    \A p \in Procs :
        (Done(p, "get_billing_summary") /\ CustomerExists(dbOf[p], args[p].customer_id)
            /\ result[p] # StoreError) =>
        /\ result[p].kind = "ok"
        /\ result[p].value.total_due =
              SumDue(dbOf[p], InvoicesOf(dbOf[p], args[p].customer_id))
        /\ InvoicesOf(dbOf[p], args[p].customer_id) = {} => result[p].value.total_due = 0

\* An overpaid invoice (floored at 0) beside one whose only payment failed.
C5_Witness ==
    /\ Done(1, "get_billing_summary") /\ result[1].kind = "ok"
    /\ Len(result[1].value.invoices) = 2
    /\ \E i \in 1..2 : result[1].value.invoices[i].paid > result[1].value.invoices[i].amount
    /\ result[1].value.total_due > 0

\* C6: for a customer id that is not in Customers, get_customer and
\* get_billing_summary raise NotFound with that id, and get_support_tickets returns
\* the empty sequence (the store not failing).
C6_UnknownCustomer ==
    \A p \in Procs :
        (pc[p] = "done" /\ ~CustomerExists(dbOf[p], args[p].customer_id)
            /\ result[p] # StoreError) =>
        /\ op[p] \in {"get_customer", "get_billing_summary"} =>
              result[p] = NotFound(args[p].customer_id)
        /\ op[p] = "get_support_tickets" => result[p] = Ok(<<>>)

C6_Witness ==
    /\ Done(1, "get_billing_summary") /\ result[1] = NotFound(3)
    /\ Done(2, "get_support_tickets") /\ args[2].customer_id = 3 /\ result[2] = Ok(<<>>)
    /\ Len(SupportTickets[1]) > Len(SeedTickets)

Ids(s) == {s[i].ticket_id : i \in 1..Len(s)}

Inserted(d) ==
    (Range(SupportTickets[d]) \ Range(SeedTickets))
    \cup UNION {Range(txn[p]) : p \in {q \in Procs : dbOf[q] = d}}

\* C8: every row create_support_ticket inserted has a priority among "low",
\* "medium", "high", status "open" and no closed_at, and the ticket a successful
\* call returns carries the call's customer_id, subject, description and priority,
\* with status "open" and closed_at None.
C8_NewTicket ==
    /\ \A d \in DBs : \A r \in Inserted(d) :
          /\ r.priority \in {"low", "medium", "high"}
          /\ r.status = "open"
          /\ r.closed_at = NoTime
    /\ \A p \in Procs :
          (Done(p, "create_support_ticket") /\ result[p].kind = "ok") =>
             /\ result[p].value.priority = args[p].priority
             /\ result[p].value.customer_id = args[p].customer_id
             /\ result[p].value.subject = args[p].subject
             /\ result[p].value.description = args[p].description
             /\ result[p].value.status = "open"
             /\ result[p].value.closed_at = NoTime

C8_Witness ==
    \E p \in Procs :
        /\ Done(p, "create_support_ticket") /\ result[p].kind = "ok"
        /\ result[p].value.priority = "high" /\ result[p].value.subject = "Wifi down"
        /\ Inserted(dbOf[p]) # {}

\* C9: two create_support_ticket calls for the same existing customer, their steps
\* interleaved, both succeed (the store not failing), leave two rows with different
\* ticket_ids, and each returns the row it inserted.
C9_ConcurrentCreates ==
    (/\ \A p \in Procs : Done(p, "create_support_ticket")
                         /\ args[p].priority \in {"low", "medium", "high"}
                         /\ CustomerExists(dbOf[p], args[p].customer_id)
                         /\ result[p] # StoreError
     /\ args[1].customer_id = args[2].customer_id) =>
    /\ \A p \in Procs :
          /\ result[p].kind = "ok"
          /\ result[p].value.ticket_id = local[p].ticket_id
          /\ result[p].value.subject = args[p].subject
          /\ \E i \in RowsOf(p) :
                TicketColumns(SupportTickets[dbOf[p]][i]) = result[p].value
          /\ Cardinality(RowsOf(p)) = 1
    /\ local[1].ticket_id # local[2].ticket_id
    /\ RowsOf(1) # RowsOf(2)

\* Both calls began before either had committed.
C9_Witness ==
    /\ \A p \in Procs : Done(p, "create_support_ticket") /\ result[p].kind = "ok"
    /\ args[1].customer_id = args[2].customer_id
    /\ pre[1] = pre[2]
    /\ local[2].ticket_id < local[1].ticket_id

\* Two finished calls of one tool with equal arguments, each having found the same
\* SupportTickets in its own copy of the database, the store having failed neither.
SameCall ==
    /\ \A p \in Procs : pc[p] = "done" /\ result[p] # StoreError
    /\ op[1] = op[2] /\ args[1] = args[2]
    /\ pre[1] = pre[2]
    /\ dbOf[1] # dbOf[2]

SameOutcome ==
    /\ result[1].kind = result[2].kind
    /\ result[1].kind \in {"ok", "NotFound"} => result[1].value = result[2].value
    /\ SupportTickets[dbOf[1]] = SupportTickets[dbOf[2]]

\* C10 as claimed: a handler's outcome, and for create_support_ticket the store it
\* leaves, is a function of its arguments and the store it found.
C10_Pure == SameCall => SameOutcome

\* C10, amended: a handler's outcome and the store it leaves are a function of its
\* arguments, the store it found and, for create_support_ticket, the time it read
\* from the wall clock.
C10_PureGivenTime ==
    (SameCall /\ local[1].opened_at = local[2].opened_at) => SameOutcome

\* Two creations that read the same second, and two that did not.
C10_Witness ==
    /\ SameCall /\ op[1] = "create_support_ticket" /\ result[1].kind = "ok"
    /\ local[1].opened_at = local[2].opened_at
    /\ clock = MaxTime

====
